---------------------------- MODULE Spec2Model ----------------------------
(***************************************************************************)
(* Model of the street-sweeping citation preparation pipeline              *)
(* (src/src/prepare.py): the Record Cleaner (drop_features), the Temporal  *)
(* Normalizer (cast_time), the Coordinate Transformer                      *)
(* (convert_coordinates), the Feature Augmenter (add_features), the        *)
(* Citation Preparer (prep_sweep_data) with its cached artifact, and the   *)
(* Time-Series Aggregator (resample_period, aggregate_sweep_days).         *)
(*                                                                         *)
(* A pandas DataFrame is a record [columns, rows]: the set of its column   *)
(* names and the sequence of its rows, each row a function from the column *)
(* names to cell values.  The row labels (the pandas index) are not        *)
(* modelled: no modelled operation reads them.                             *)
(***************************************************************************)
EXTENDS Integers, Sequences, FiniteSets, TLC

VARIABLES
    data,      \* the table object the caller passed to the last call, as the caller sees it afterwards
    arg,       \* the value of that table when the call was made
    dataset,   \* the table the last call returned
    exc,       \* "none", or the exception the last call raised instead of returning
    op,        \* the function called last ("init" before any call)
    artifact,  \* the file ./data/prepared/train.csv: [exists, lines]
    ran,       \* the stages the last prep_sweep_data call executed
    writes,    \* 1 if the last prep_sweep_data call wrote the artifact, else 0
    daily,     \* the daily revenue series returned by resample_period
    proc       \* the concurrent prep_sweep_data runs: one record per process

vars == <<data, arg, dataset, exc, op, artifact, ran, writes, daily, proc>>

----------------------------------------------------------------------------
(* Bounds of the model. *)

\* longest table given to drop_features, cast_time, convert_coordinates
MaxRows == 3
\* longest raw table given to prep_sweep_data
MaxPrepRows == 2
\* longest prepared table given to resample_period
MaxSeriesRows == 3

----------------------------------------------------------------------------
(* Tables. *)

\* A missing cell (numpy.nan).  Only text columns hold it in this model.
NaN == "NaN"

EmptyTable == [columns |-> {}, rows |-> <<>>]

\* All sequences over S of length lo..hi.
SeqsOf(S, lo, hi) == UNION {[1..n -> S] : n \in lo..hi}

features_to_drop ==
    {"vin", "rp_state_plate", "plate_expiry_date", "make",
     "body_style", "color", "marked_time", "color_description",
     "body_style_description", "agency_description", "meter_id",
     "ticket_number", "violation_code"}

\* The columns drop_features retains (its docstring).
RetainedColumns ==
    {"issue_date", "issue_time", "location", "route", "agency",
     "violation_description", "fine_amount", "latitude", "longitude"}

\* The retained columns whose cells are text, hence may be NaN here.
TextColumns == {"location", "route", "violation_description"}

\* One citation under the normalised column names.
Citation(ticket, date, time, loc, fine, lat, long) ==
    [vin |-> "v", rp_state_plate |-> "CA", plate_expiry_date |-> "e", make |-> "m",
     body_style |-> "PA", color |-> "WT", marked_time |-> "t", color_description |-> "WHITE",
     body_style_description |-> "PASSENGER CAR", agency_description |-> "DOT",
     meter_id |-> NaN, ticket_number |-> ticket, violation_code |-> "80.69BS",
     issue_date |-> date, issue_time |-> time, location |-> loc, route |-> "R1",
     agency |-> 51, violation_description |-> "NO PARK/STREET CLEAN",
     fine_amount |-> fine, latitude |-> lat, longitude |-> long]

AllColumns == features_to_drop \cup RetainedColumns

\* A row restricted to the columns cols.
Project(r, cols) == [c \in cols |-> r[c]]

\* DataFrame.drop_duplicates(): keep the first of every group of equal rows.
drop_duplicates(rows) ==
    LET keep(i) == \A j \in 1..(i - 1) : rows[j] # rows[i]
        F[i \in 0..Len(rows)] ==
            IF i = 0 THEN <<>>
            ELSE IF keep(i) THEN Append(F[i - 1], rows[i]) ELSE F[i - 1]
    IN F[Len(rows)]

\* DataFrame.drop(columns=cols): the table without those columns.
drop_columns(t, cols) ==
    [columns |-> t.columns \ cols,
     rows |-> [i \in 1..Len(t.rows) |-> Project(t.rows[i], t.columns \ cols)]]

IsNaRow(r) == \E c \in (DOMAIN r) \cap (TextColumns \cup {"meter_id"}) : r[c] = NaN

\* DataFrame.dropna(axis=0): a new table without the rows that miss a value.
dropna(t) ==
    [columns |-> t.columns, rows |-> SelectSeq(t.rows, LAMBDA r : ~IsNaRow(r))]

----------------------------------------------------------------------------
(* drop_features (prepare.py 14-49).  The two inplace=True calls change   *)
(* the caller's table; only dropna makes a new one.                        *)

\* Line 36 as a bug would have it: drop_duplicates without inplace=True.
dedup_not_inplace(t) == t

\* Line 36: data.drop_duplicates(inplace=True).
dedup_inplace(t) == [columns |-> t.columns, rows |-> drop_duplicates(t.rows)]

\* Line 44 raises KeyError when a column to drop is absent.
drop_features_raises(t) == ~(features_to_drop \subseteq t.columns)

\* The caller's table after drop_features(t).
drop_features_data(t) ==
    IF drop_features_raises(t) THEN dedup_inplace(t)
    ELSE drop_columns(dedup_inplace(t), features_to_drop)

\* The table drop_features(t) returns.
drop_features(t) == dropna(drop_features_data(t))

----------------------------------------------------------------------------
(* Specification of the Record Cleaner alone. *)

CleanRows ==
    {Citation(k, 30, 930, loc, f, 6440000, 1803000) :
        k \in {1, 2}, loc \in {"A", NaN}, f \in {63, 73}}

CleanTables ==
    {[columns |-> AllColumns, rows |-> s] : s \in SeqsOf(CleanRows, 0, MaxRows)}
    \cup
    {drop_columns([columns |-> AllColumns, rows |-> s], {"meter_id"}) :
        s \in SeqsOf(CleanRows, 1, 1)}

Idle ==
    /\ dataset = EmptyTable
    /\ exc = "none"
    /\ op = "init"
    /\ artifact = [exists |-> FALSE, lines |-> <<>>]
    /\ ran = {}
    /\ writes = 0
    /\ daily = <<>>
    /\ proc = <<>>

InitClean ==
    /\ data \in CleanTables
    /\ arg = data
    /\ Idle

CallDropFeatures ==
    /\ op = "init"
    /\ op' = "drop_features"
    /\ arg' = data
    /\ data' = drop_features_data(data)
    /\ exc' = IF drop_features_raises(data) THEN "KeyError" ELSE "none"
    /\ dataset' = IF drop_features_raises(data) THEN EmptyTable ELSE drop_features(data)
    /\ UNCHANGED <<artifact, ran, writes, daily, proc>>

NextClean == CallDropFeatures

SpecClean == InitClean /\ [][NextClean]_vars

Returned(f) == op = f /\ exc = "none"

\* Two rows of the returned table are equal.
HasEqualRows(t) == \E i, j \in 1..Len(t.rows) : i < j /\ t.rows[i] = t.rows[j]

\* C3: for every raw table that has all the columns to be dropped, the table
\* drop_features returns has no missing value in a retained column and no two
\* rows equal on all retained columns.
C3_CleanedNoMissingNoDuplicate ==
    Returned("drop_features") =>
        /\ \A i \in 1..Len(dataset.rows) : ~IsNaRow(dataset.rows[i])
        /\ ~HasEqualRows(dataset)

\* C9 as stated: drop_features leaves the caller's table unchanged (same
\* columns, same rows).
C9_CallerTableUnchanged ==
    Returned("drop_features") => data = arg

\* C9 amended: drop_features changes the caller's table in place: afterwards it
\* has lost its duplicate rows (first occurrences kept) and the thirteen dropped
\* columns, and still holds its rows with missing values; the returned table is
\* that table without the rows that miss a value.
C9_CallerTableDedupedAndNarrowed ==
    Returned("drop_features") =>
        /\ data.columns = arg.columns \ features_to_drop
        /\ data.rows = [i \in 1..Len(drop_duplicates(arg.rows)) |->
                            Project(drop_duplicates(arg.rows)[i], RetainedColumns)]
        /\ dataset = dropna(data)

\* C9 witness: a call that removed a duplicate row and the columns from the
\* caller's table, left a row with a missing value in it, and returned less.
C9_Witness ==
    /\ Returned("drop_features")
    /\ Len(data.rows) < Len(arg.rows)
    /\ \E i \in 1..Len(data.rows) : IsNaRow(data.rows[i])
    /\ Len(dataset.rows) < Len(data.rows)
    /\ Len(dataset.rows) > 0

----------------------------------------------------------------------------
(* cast_time (prepare.py 52-89). *)

\* str(v) of a non-negative integer: its decimal digits, most significant first.
RECURSIVE str(_)
str(v) == IF v < 10 THEN <<v>> ELSE Append(str(v \div 10), v % 10)

\* int(s) of a digit string.
RECURSIVE int(_)
int(s) == IF Len(s) = 0 THEN 0 ELSE 10 * int(SubSeq(s, 1, Len(s) - 1)) + s[Len(s)]

\* Lines 71-79 as a bug would have it: the 3-digit branch slices like the 4-digit one.
hour_minute_sliced_as_four(t) ==
    IF Len(t) = 4 \/ Len(t) = 3 THEN [h |-> int(SubSeq(t, 1, 2)), m |-> int(SubSeq(t, 3, Len(t)))]
    ELSE [h |-> 0, m |-> 0]

\* Lines 71-81: hour and minute of the string t, by its length.
hour_minute(t) ==
    IF Len(t) = 4 THEN [h |-> int(SubSeq(t, 1, 2)), m |-> int(SubSeq(t, 3, 4))]
    ELSE IF Len(t) = 3 THEN [h |-> int(SubSeq(t, 1, 1)), m |-> int(SubSeq(t, 2, 3))]
    ELSE [h |-> 0, m |-> 0]

\* datetime.time(hour=h, minute=m): the value built, second 0.
time(h, m) == [hour |-> h, minute |-> m, second |-> 0]

\* datetime.time raises ValueError outside 0..23 and 0..59.
time_raises(h, m) == ~(h \in 0..23 /\ m \in 0..59)

\* Line 65 then 71-81 for one cell.
parsed(v) == hour_minute(str(v))

\* The loop of lines 70-82 raises at the first cell datetime.time rejects.
cast_time_raises(t) ==
    \E i \in 1..Len(t.rows) :
        time_raises(parsed(t.rows[i].issue_time).h, parsed(t.rows[i].issue_time).m)

\* Line 84: data.issue_time = times (the table passed in is changed).
cast_time_data(t) ==
    [columns |-> t.columns,
     rows |-> [i \in 1..Len(t.rows) |->
                 [t.rows[i] EXCEPT !.issue_time =
                     time(parsed(t.rows[i].issue_time).h, parsed(t.rows[i].issue_time).m)]]]

\* Line 87: the rows whose time is not time(hour=0, minute=0, second=0).
cast_time(t) ==
    [columns |-> t.columns,
     rows |-> SelectSeq(cast_time_data(t).rows, LAMBDA r : r.issue_time # time(0, 0))]

----------------------------------------------------------------------------
(* Specification of the Temporal Normalizer alone. *)

\* Raw issue_time values: unknown (0), 2 digits, 3 and 4 digits in range,
\* out of range (999, 2460), 5 digits.
TimeCodes == {0, 45, 930, 1430, 2359, 999, 2460, 12345}

TimeRows ==
    {Project(Citation(1, 30, v, loc, 73, 6440000, 1803000), RetainedColumns) :
        v \in TimeCodes, loc \in {"A", "B"}}

TimeTables ==
    {[columns |-> RetainedColumns, rows |-> s] : s \in SeqsOf(TimeRows, 0, MaxRows)}

InitTime ==
    /\ data \in TimeTables
    /\ arg = data
    /\ Idle

CallCastTime ==
    /\ op = "init"
    /\ op' = "cast_time"
    /\ arg' = data
    /\ exc' = IF cast_time_raises(data) THEN "ValueError" ELSE "none"
    /\ data' = IF cast_time_raises(data) THEN data ELSE cast_time_data(data)
    /\ dataset' = IF cast_time_raises(data) THEN EmptyTable ELSE cast_time(data)
    /\ UNCHANGED <<artifact, ran, writes, daily, proc>>

NextTime == CallCastTime

SpecTime == InitTime /\ [][NextTime]_vars

\* The time the specification assigns to the raw value v, by arithmetic.
ExpectedHour(v) == IF v >= 100 /\ v <= 9999 THEN v \div 100 ELSE 0
ExpectedMinute(v) == IF v >= 100 /\ v <= 9999 THEN v % 100 ELSE 0
ValidEncoding(v) == ExpectedHour(v) <= 23 /\ ExpectedMinute(v) <= 59
ExpectedTime(v) == [hour |-> ExpectedHour(v), minute |-> ExpectedMinute(v), second |-> 0]
Midnight == [hour |-> 0, minute |-> 0, second |-> 0]

\* The rows the specification keeps: those with a valid encoding and a time
\* other than midnight, in order, each with its parsed time.
ExpectedRows(rows) ==
    LET kept == SelectSeq(rows, LAMBDA r : ValidEncoding(r.issue_time)
                                            /\ ExpectedTime(r.issue_time) # Midnight)
    IN [i \in 1..Len(kept) |-> [kept[i] EXCEPT !.issue_time = ExpectedTime(kept[i].issue_time)]]

AllValid(rows) == \A i \in 1..Len(rows) : ValidEncoding(rows[i].issue_time)

\* C4: on a table whose issue_time values all have a valid encoding, cast_time
\* returns exactly the rows whose time is not 00:00:00, each with the time
\* HH:MM:00 read from its 4 digits, H:MM:00 from its 3 digits, and the rows of 0,
\* 1 or 2 digits (time 00:00:00) are absent.
C4_CastTimeParses ==
    (op = "cast_time" /\ AllValid(arg.rows)) =>
        /\ exc = "none"
        /\ dataset.rows = ExpectedRows(arg.rows)

\* C4 witness: a call that parsed 1430 to 14:30:00 and 930 to 09:30:00 and
\* dropped a row whose raw time is 0.
C4_Witness ==
    /\ Returned("cast_time")
    /\ \E i \in 1..Len(arg.rows) : arg.rows[i].issue_time = 0
    /\ \E i, j \in 1..Len(arg.rows) : arg.rows[i].issue_time = 1430 /\ arg.rows[j].issue_time = 930
    /\ \E i, j \in 1..Len(dataset.rows) :
          /\ dataset.rows[i].issue_time = [hour |-> 14, minute |-> 30, second |-> 0]
          /\ dataset.rows[j].issue_time = [hour |-> 9, minute |-> 30, second |-> 0]
    /\ Len(dataset.rows) = 2

\* C5: when a row's encoding parses to hour > 23 or minute > 59, cast_time drops
\* only that row: it still returns, and its output holds every other row that
\* has a valid time other than midnight.
C5_OutOfRangeRowDropped ==
    (op = "cast_time" /\ ~AllValid(arg.rows)) =>
        /\ exc = "none"
        /\ dataset.rows = ExpectedRows(arg.rows)

----------------------------------------------------------------------------
(* convert_coordinates (prepare.py 92-136).                                *)
(*                                                                         *)
(* State-plane coordinates are whole US survey feet.  Geographic degrees   *)
(* are fixed-point integers: transform gives 1e-5 degree, np.round(_, 4)   *)
(* gives 1e-4 degree.  pyproj's inverse Lambert conformal conic is         *)
(* replaced by its first-order expansion about the projection origin       *)
(* (lat_0 = 33.5, lon_0 = -118, x_0 = 2000000 m, y_0 = 500000 m): feet to  *)
(* metres, minus the false origin, divided by the length of a degree.  It  *)
(* keeps what the code relies on: the output is a geographic position      *)
(* computed from the input, not the input.                                 *)

\* +to_meter=0.3048006096012192, on whole feet.
to_meter(ft) == (((ft \div 1000) * 3048) \div 10) + (((ft % 1000) * 3048) \div 10000)

\* Longitude of easting x (feet), in 1e-5 degree: about 92.3 km per degree at 34 N.
transform_lon(x) == -11800000 + ((to_meter(x) - 2000000) * 1000) \div 923

\* Latitude of northing y (feet), in 1e-5 degree: about 111 km per degree.
transform_lat(y) == 3350000 + ((to_meter(y) - 500000) * 100) \div 111

\* np.round(v, 4): 1e-5 degree to 1e-4 degree, halves to the even neighbour.
round4(v) ==
    LET q == v \div 10
        r == v % 10
    IN IF r < 5 THEN q
       ELSE IF r > 5 THEN q + 1
       ELSE IF q % 2 = 0 THEN q ELSE q + 1

\* The float 99999.0 on the 1e-4 degree grid.
SentinelDegrees == 999990000

\* Lines 120-131: the table passed in gets the transformed, rounded columns.
\* Line 126 passes the latitude column as x and the longitude column as y.
convert_coordinates_data(t) ==
    [columns |-> t.columns,
     rows |-> [i \in 1..Len(t.rows) |->
                 [t.rows[i] EXCEPT !.longitude = round4(transform_lon(t.rows[i].latitude)),
                                   !.latitude = round4(transform_lat(t.rows[i].longitude))]]]

\* Line 134: the rows whose converted coordinates both differ from 99999.0.
convert_coordinates(t) ==
    [columns |-> t.columns,
     rows |-> SelectSeq(convert_coordinates_data(t).rows,
                        LAMBDA r : r.longitude # SentinelDegrees /\ r.latitude # SentinelDegrees)]

----------------------------------------------------------------------------
(* Specification of the Coordinate Transformer alone. *)

\* The raw marker of a citation without coordinates, in feet.
SentinelFeet == 99999

CoordRows ==
    {Project(Citation(1, 30, [hour |-> 9, minute |-> 30, second |-> 0], "A", 73, x, y),
             RetainedColumns) :
        x \in {SentinelFeet, 6440000, 6480000}, y \in {SentinelFeet, 1803000, 1840000}}

CoordTables ==
    {[columns |-> RetainedColumns, rows |-> s] : s \in SeqsOf(CoordRows, 0, MaxRows)}

InitCoord ==
    /\ data \in CoordTables
    /\ arg = data
    /\ Idle

CallConvertCoordinates ==
    /\ op = "init"
    /\ op' = "convert_coordinates"
    /\ arg' = data
    /\ exc' = "none"
    /\ data' = convert_coordinates_data(data)
    /\ dataset' = convert_coordinates(data)
    /\ UNCHANGED <<artifact, ran, writes, daily, proc>>

NextCoord == CallConvertCoordinates

SpecCoord == InitCoord /\ [][NextCoord]_vars

HasSentinel(r) == r.latitude = SentinelFeet \/ r.longitude = SentinelFeet

\* C10: every row whose raw latitude or longitude is the sentinel 99999.0 is
\* absent from the output of convert_coordinates (the output holds exactly the
\* other rows), and no output row has a coordinate equal to 99999.0.
C10_SentinelRowsAbsent ==
    Returned("convert_coordinates") =>
        /\ Len(dataset.rows) = Len(SelectSeq(arg.rows, LAMBDA r : ~HasSentinel(r)))
        /\ \A i \in 1..Len(dataset.rows) :
              /\ dataset.rows[i].latitude # SentinelDegrees
              /\ dataset.rows[i].longitude # SentinelDegrees

----------------------------------------------------------------------------
(* Calendar.  A date is a day number counted from 2020-12-01, a Tuesday.   *)

IsLeap(y) == (y % 4 = 0 /\ y % 100 # 0) \/ y % 400 = 0

\* calendar.monthrange(y, m)[1]
DaysInMonth(y, m) ==
    IF m = 2 THEN (IF IsLeap(y) THEN 29 ELSE 28)
    ELSE IF m \in {4, 6, 9, 11} THEN 30 ELSE 31

\* The civil date n days after the first day of month m of year y.
RECURSIVE Civil(_, _, _)
Civil(y, m, n) ==
    IF n < DaysInMonth(y, m) THEN [year |-> y, month |-> m, day |-> n + 1]
    ELSE IF m = 12 THEN Civil(y + 1, 1, n - DaysInMonth(y, m))
    ELSE Civil(y, m + 1, n - DaysInMonth(y, m))

\* Timestamp.year, .month, .day of day number d.
YMD(d) == Civil(2020, 12, d)

\* The day number of the first day of month m of year y (from 2020-12).
RECURSIVE MonthStart(_, _)
MonthStart(y, m) ==
    IF y = 2020 /\ m = 12 THEN 0
    ELSE IF m = 1 THEN MonthStart(y - 1, 12) + DaysInMonth(y - 1, 12)
    ELSE MonthStart(y, m - 1) + DaysInMonth(y, m - 1)

\* pd.to_datetime of the text of a date: the day number of year-month-day.
Ordinal(ymd) == MonthStart(ymd.year, ymd.month) + ymd.day - 1

\* Timestamp.weekday(): Monday is 0, Sunday is 6.
weekday(d) == (d + 1) % 7

\* Timestamp.day_name()
day_name(d) ==
    <<"Monday", "Tuesday", "Wednesday", "Thursday", "Friday", "Saturday", "Sunday">>[weekday(d) + 1]

----------------------------------------------------------------------------
(* add_features (prepare.py 139-164). *)

FeatureColumns ==
    {"citation_year", "citation_month", "citation_day", "day_of_week",
     "citation_hour", "citation_minute"}

add_features_row(r) ==
    [c \in (DOMAIN r) \cup FeatureColumns |->
        IF c = "citation_year" THEN YMD(r.issue_date).year
        ELSE IF c = "citation_month" THEN YMD(r.issue_date).month
        ELSE IF c = "citation_day" THEN YMD(r.issue_date).day
        ELSE IF c = "day_of_week" THEN day_name(r.issue_date)
        ELSE IF c = "citation_hour" THEN r.issue_time.hour
        ELSE IF c = "citation_minute" THEN r.issue_time.minute
        ELSE r[c]]

add_features(t) ==
    [columns |-> t.columns \cup FeatureColumns,
     rows |-> [i \in 1..Len(t.rows) |-> add_features_row(t.rows[i])]]

----------------------------------------------------------------------------
(* prep_sweep_data (prepare.py 247-297). *)

\* datetime.time ordering: by (hour, minute, second).
time_le(a, b) ==
    \/ a.hour < b.hour
    \/ a.hour = b.hour /\ a.minute < b.minute
    \/ a.hour = b.hour /\ a.minute = b.minute /\ a.second <= b.second

\* Row a sorts no later than row b by ['issue_date', 'issue_time'].
key_le(a, b) ==
    \/ a.issue_date < b.issue_date
    \/ a.issue_date = b.issue_date /\ time_le(a.issue_time, b.issue_time)

\* r inserted into the sorted sequence s after the rows that sort no later.
RECURSIVE insert_sorted(_, _)
insert_sorted(s, r) ==
    IF Len(s) = 0 THEN <<r>>
    ELSE IF key_le(s[Len(s)], r) THEN Append(s, r)
    ELSE Append(insert_sorted(SubSeq(s, 1, Len(s) - 1), r), s[Len(s)])

\* Line 284: DataFrame.sort_values(by=['issue_date', 'issue_time']), stable.
sort_values(t) ==
    LET F[i \in 0..Len(t.rows)] ==
            IF i = 0 THEN <<>> ELSE insert_sorted(F[i - 1], t.rows[i])
    IN [columns |-> t.columns, rows |-> F[Len(t.rows)]]

\* Lines 288-289.
min_time == time(7, 30)
max_time == time(15, 30)

\* Line 291 as a bug would have it: the lower bound of the window forgotten.
in_window_upper_only(t) == time_le(t, max_time)

\* Line 291: (issue_time >= min_time) & (issue_time <= max_time).
in_window(t) == time_le(min_time, t) /\ time_le(t, max_time)

filter_window(t) ==
    [columns |-> t.columns, rows |-> SelectSeq(t.rows, LAMBDA r : in_window(r.issue_time))]

\* The raw column names of the citation source, and lines 274-275:
\* x.replace(' ', '_').lower() of each.
formatted_feature_names ==
    [x \in {"Ticket number", "Issue Date", "Issue time", "Meter Id", "Marked Time",
            "RP State Plate", "Plate Expiry Date", "VIN", "Make", "Body Style", "Color",
            "Location", "Route", "Agency", "Violation code", "Violation Description",
            "Fine amount", "Latitude", "Longitude", "Agency Description",
            "Color Description", "Body Style Description"} |->
        CASE x = "Ticket number" -> "ticket_number"
          [] x = "Issue Date" -> "issue_date"
          [] x = "Issue time" -> "issue_time"
          [] x = "Meter Id" -> "meter_id"
          [] x = "Marked Time" -> "marked_time"
          [] x = "RP State Plate" -> "rp_state_plate"
          [] x = "Plate Expiry Date" -> "plate_expiry_date"
          [] x = "VIN" -> "vin"
          [] x = "Make" -> "make"
          [] x = "Body Style" -> "body_style"
          [] x = "Color" -> "color"
          [] x = "Location" -> "location"
          [] x = "Route" -> "route"
          [] x = "Agency" -> "agency"
          [] x = "Violation code" -> "violation_code"
          [] x = "Violation Description" -> "violation_description"
          [] x = "Fine amount" -> "fine_amount"
          [] x = "Latitude" -> "latitude"
          [] x = "Longitude" -> "longitude"
          [] x = "Agency Description" -> "agency_description"
          [] x = "Color Description" -> "color_description"
          [] x = "Body Style Description" -> "body_style_description"]

RawColumns == DOMAIN formatted_feature_names

\* Line 275: data.columns = formatted_feature_names (the caller's table is renamed).
rename_columns(t) ==
    LET new == {formatted_feature_names[x] : x \in t.columns}
        old == [c \in new |-> CHOOSE x \in t.columns : formatted_feature_names[x] = c]
    IN [columns |-> new,
        rows |-> [i \in 1..Len(t.rows) |-> [c \in new |-> t.rows[i][old[c]]]]]

\* The order of the columns of the prepared table, the header of the artifact.
PreparedHeader ==
    <<"issue_date", "issue_time", "location", "route", "agency", "violation_description",
      "fine_amount", "latitude", "longitude", "citation_year", "citation_month",
      "citation_day", "day_of_week", "citation_hour", "citation_minute">>

\* The text of a time in the artifact, HH:MM:SS, as its six digits.
format_time(t) ==
    <<t.hour \div 10, t.hour % 10, t.minute \div 10, t.minute % 10,
      t.second \div 10, t.second % 10>>

\* Line 270: pd.to_datetime(text).dt.time
parse_time(s) ==
    [hour |-> 10 * s[1] + s[2], minute |-> 10 * s[3] + s[4], second |-> 10 * s[5] + s[6]]

\* One row as a line of the artifact: the date as year-month-day, the time as text.
csv_line(r) == [r EXCEPT !.issue_date = YMD(r.issue_date), !.issue_time = format_time(r.issue_time)]

\* Line 294: DataFrame.to_csv(filename, index=False): the header, then the rows.
to_csv(t) == <<[header |-> PreparedHeader]>> \o [i \in 1..Len(t.rows) |-> csv_line(t.rows[i])]

\* Lines 269-270: read_csv with parse_dates=['issue_date'], then the time column.
read_line(l) == [l EXCEPT !.issue_date = Ordinal(l.issue_date), !.issue_time = parse_time(l.issue_time)]

read_csv(lines) ==
    [columns |-> {lines[1].header[k] : k \in 1..Len(lines[1].header)},
     rows |-> [i \in 1..(Len(lines) - 1) |-> read_line(lines[i + 1])]]

\* Line 268 as a bug would have it: the existence check never succeeds.
path_never_exists(a) == FALSE

\* Line 268: os.path.exists(filename)
path_exists(a) == a.exists

\* Lines 274-291 for the raw table t: the exception raised on the way ("none"
\* if none), the caller's table afterwards (renamed, then changed by
\* drop_features; the later stages work on the copy dropna made), and the
\* prepared table.
prep_outcome(t) ==
    LET renamed == rename_columns(t)
        cleaned == drop_features(renamed)
    IN [exc |-> IF drop_features_raises(renamed) THEN "KeyError"
                ELSE IF cast_time_raises(cleaned) THEN "ValueError"
                ELSE "none",
        data |-> drop_features_data(renamed),
        dataset |-> IF drop_features_raises(renamed) \/ cast_time_raises(cleaned)
                    THEN EmptyTable
                    ELSE filter_window(sort_values(add_features(convert_coordinates(
                             cast_time(cleaned)))))]

prep_raises(t) == prep_outcome(t).exc

prepare(t) == prep_outcome(t).dataset

AllStages ==
    {"rename", "drop_features", "cast_time", "convert_coordinates", "add_features",
     "sort_values", "filter_window", "to_csv"}

\* The stages a deriving run executes (entered, for the one that raises).
stages_run(e) ==
    IF e = "KeyError" THEN {"rename", "drop_features"}
    ELSE IF e = "ValueError" THEN {"rename", "drop_features", "cast_time"}
    ELSE AllStages

----------------------------------------------------------------------------
(* Specification of the Citation Preparer: prep_sweep_data called again    *)
(* and again, one call at a time, each with any raw table.                 *)

\* Raw (issue date, issue time) pairs.  Day numbers 30 and 31 are Thursday
\* 2020-12-31 and Friday 2021-01-01; the times lie around the two ends of the
\* window, one is unknown (0) and one out of range (2460).
PrepCells ==
    {<<30, 0>>, <<30, 2460>>, <<30, 729>>, <<31, 730>>, <<30, 1530>>, <<31, 1531>>}

RawCitation(r) == [x \in RawColumns |-> r[formatted_feature_names[x]]]

PrepRows ==
    {RawCitation(Citation(1, c[1], c[2], "A", 73, 6440000, 1803000)) : c \in PrepCells}

PrepTables ==
    {[columns |-> RawColumns, rows |-> s] : s \in SeqsOf(PrepRows, 0, MaxPrepRows)}

Init ==
    /\ data = EmptyTable
    /\ arg = EmptyTable
    /\ Idle

\* Lines 268-271: the artifact exists; it is loaded and returned, and the
\* table passed in is not looked at.
PrepLoad ==
    /\ path_exists(artifact)
    /\ \E loaded \in {read_csv(artifact.lines)} :
         \E raw \in PrepTables :
            /\ arg' = raw
            /\ data' = raw
            /\ dataset' = loaded
    /\ op' = "prep_sweep_data"
    /\ exc' = "none"
    /\ ran' = {}
    /\ writes' = 0
    /\ UNCHANGED <<artifact, daily, proc>>

\* Lines 272-297: the artifact does not exist; the table is derived and cached.
PrepDerive ==
    /\ ~path_exists(artifact)
    /\ \E raw \in PrepTables :
        \E out \in {prep_outcome(raw)} :
           /\ arg' = raw
           /\ exc' = out.exc
           /\ data' = out.data
           /\ ran' = stages_run(out.exc)
           /\ dataset' = out.dataset
           /\ IF out.exc = "none"
              THEN /\ artifact' = [exists |-> TRUE, lines |-> to_csv(out.dataset)]
                   /\ writes' = 1
              ELSE /\ writes' = 0
                   /\ UNCHANGED artifact
    /\ op' = "prep_sweep_data"
    /\ UNCHANGED <<daily, proc>>

\* prep_sweep_data(data): one whole call.
PrepSweepData == PrepLoad \/ PrepDerive

Next == PrepSweepData

Spec == Init /\ [][Next]_vars

\* Seconds since midnight of a time.
SecondsOf(t) == 3600 * t.hour + 60 * t.minute + t.second

\* 07:30:00 <= t <= 15:30:00
InEnforcementHours(t) == 27000 <= SecondsOf(t) /\ SecondsOf(t) <= 55800

\* C1: once the artifact exists, a call of prep_sweep_data, whatever raw table
\* it is given, runs no stage, does not write the artifact, leaves its content
\* as it is and returns the table loaded from it.
C1_ArtifactNeverRederived ==
    [][artifact.exists =>
          /\ artifact' = artifact
          /\ ran' = {}
          /\ writes' = 0
          /\ exc' = "none"
          /\ dataset' = read_csv(artifact.lines)]_vars

\* C1 witness: the artifact holds rows, and the last call was given a raw table
\* that would derive to something else, ran no stage and returned the loaded rows.
C1_Witness ==
    /\ artifact.exists
    /\ Len(artifact.lines) > 1
    /\ op = "prep_sweep_data"
    /\ ran = {}
    /\ writes = 0
    /\ prep_raises(arg) = "none"
    /\ to_csv(prepare(arg)) # artifact.lines
    /\ Len(prepare(arg).rows) > 0
    /\ dataset = read_csv(artifact.lines)

\* C2: every row of the persisted artifact, and of every table prep_sweep_data
\* returns (derived or loaded), has an issue_time t with
\* 07:30:00 <= t <= 15:30:00, both ends included.
C2_IssueTimeInWindow ==
    /\ artifact.exists =>
          \A i \in 2..Len(artifact.lines) :
              /\ artifact.lines[i].issue_time[5] = 0 /\ artifact.lines[i].issue_time[6] = 0
              /\ InEnforcementHours(
                    [hour |-> 10 * artifact.lines[i].issue_time[1] + artifact.lines[i].issue_time[2],
                     minute |-> 10 * artifact.lines[i].issue_time[3] + artifact.lines[i].issue_time[4],
                     second |-> 0])
    /\ Returned("prep_sweep_data") =>
          \A i \in 1..Len(dataset.rows) : InEnforcementHours(dataset.rows[i].issue_time)

\* C2 witness: a cache-hit call returned a table holding a row at 07:30:00 and a
\* row at 15:30:00, the two ends of the window.
C2_Witness ==
    /\ Returned("prep_sweep_data")
    /\ ran = {}
    /\ \E i, j \in 1..Len(dataset.rows) :
          /\ dataset.rows[i].issue_time = [hour |-> 7, minute |-> 30, second |-> 0]
          /\ dataset.rows[j].issue_time = [hour |-> 15, minute |-> 30, second |-> 0]

----------------------------------------------------------------------------
(* resample_period and aggregate_sweep_days (prepare.py 191-240).          *)
(*                                                                         *)
(* A float cell that may be NaN is a record [nan, value].  The table given *)
(* to resample_period is indexed by issue_date (street_sweep, 172-188);    *)
(* only that index and fine_amount are read, and its rows carry just these.*)

NoData == [nan |-> TRUE, value |-> 0]
Float(v) == [nan |-> FALSE, value |-> v]

\* The sum of fine_amount over the rows of day d.
day_sum(rows, d) ==
    LET F[i \in 0..Len(rows)] ==
            IF i = 0 THEN 0
            ELSE F[i - 1] + (IF rows[i].issue_date = d THEN rows[i].fine_amount ELSE 0)
    IN F[Len(rows)]

first_date(rows) == CHOOSE d \in {rows[i].issue_date : i \in 1..Len(rows)} :
                        \A i \in 1..Len(rows) : d <= rows[i].issue_date
last_date(rows) == CHOOSE d \in {rows[i].issue_date : i \in 1..Len(rows)} :
                        \A i \in 1..Len(rows) : d >= rows[i].issue_date

\* np.is_busday(date): the default week mask, Monday to Friday, no holidays.
is_busday(d) == weekday(d) < 5

\* Line 210 as a bug would have it: .replace(0, np.NaN) left out.
mask_revenue_keeps_zero(sum, business) == IF business THEN Float(sum) ELSE NoData

\* Line 210: .where(is_business_day != False, NaN).replace(0, NaN)
mask_revenue(sum, business) ==
    IF ~business THEN NoData
    ELSE IF sum = 0 THEN NoData
    ELSE Float(sum)

\* resample_period(data) with period 'D', its default: one bucket per day from
\* the first to the last date (lines 206-212; other periods skip lines 209-210).
resample_period(t) ==
    [k \in 1..(last_date(t.rows) - first_date(t.rows) + 1) |->
        LET d == first_date(t.rows) + k - 1
        IN [date |-> d,
            is_business_day |-> is_busday(d),
            revenue |-> mask_revenue(day_sum(t.rows, d), is_busday(d))]]

\* Months counted from year 0: 12 * year + (month - 1).
month_index(d) == 12 * YMD(d).year + (YMD(d).month - 1)

\* Line 231, the threshold of a regularly scheduled sweeping day.
RevenueThreshold == 69532

\* Line 231 as a bug would have it: >= for >.
over_threshold_inclusive(bucket) ==
    bucket.is_business_day = TRUE /\ ~bucket.revenue.nan /\ bucket.revenue.value >= RevenueThreshold

\* Line 231: (data.is_business_day == True) & (data.revenue > 69532); NaN > x is False.
over_threshold(bucket) ==
    bucket.is_business_day = TRUE /\ ~bucket.revenue.nan /\ bucket.revenue.value > RevenueThreshold

\* Lines 231-238: the days over the threshold, counted per (year, month), then
\* resample('M').sum(): every month from the first to the last counted one.
aggregate_sweep_days(series) ==
    LET kept == SelectSeq(series, over_threshold)
        size(mi) == Len(SelectSeq(kept, LAMBDA b : month_index(b.date) = mi))
    IN IF Len(kept) = 0 THEN <<>>
       ELSE [k \in 1..(month_index(kept[Len(kept)].date) - month_index(kept[1].date) + 1) |->
                LET mi == month_index(kept[1].date) + k - 1
                IN [year |-> mi \div 12, month |-> (mi % 12) + 1, num_days_cited |-> size(mi)]]

----------------------------------------------------------------------------
(* Specification of the Time-Series Aggregator: a prepared table is        *)
(* resampled by day, then the daily series is aggregated by month.         *)

\* Thursday 2020-12-31, Friday 2021-01-01, Saturday 2021-01-02, Sunday
\* 2021-01-03, Monday 2021-02-01, Tuesday 2021-03-02.
SeriesDates == {30, 31, 32, 33, 62, 91}

\* Fines, and sums of fines, on both sides of the threshold and on it.
SeriesFines == {0, 69000, 69532, 70000}

SeriesRows == [issue_date : SeriesDates, fine_amount : SeriesFines]

\* The prepared table is sorted by issue date (line 284).
SeriesTables ==
    {[columns |-> {"fine_amount"}, rows |-> s] :
        s \in {q \in SeqsOf(SeriesRows, 1, MaxSeriesRows) :
                 \A i \in 1..(Len(q) - 1) : q[i].issue_date <= q[i + 1].issue_date}}

InitSeries ==
    /\ data \in SeriesTables
    /\ arg = data
    /\ Idle

CallResamplePeriod ==
    /\ op = "init"
    /\ op' = "resample_period"
    /\ daily' = resample_period(data)
    /\ UNCHANGED <<data, arg, dataset, exc, artifact, ran, writes, proc>>

CallAggregateSweepDays ==
    /\ op = "resample_period"
    /\ op' = "aggregate_sweep_days"
    /\ dataset' = [columns |-> {"num_days_cited"}, rows |-> aggregate_sweep_days(daily)]
    /\ UNCHANGED <<data, arg, daily, exc, artifact, ran, writes, proc>>

NextSeries == CallResamplePeriod \/ CallAggregateSweepDays

SpecSeries == InitSeries /\ [][NextSeries]_vars

\* Day numbers 32 and 33 are a Saturday and a Sunday.
IsWeekend(d) == d % 7 = 4 \/ d % 7 = 5

RowsOfDay(d) == {i \in 1..Len(arg.rows) : arg.rows[i].issue_date = d}

RECURSIVE SumOver(_)
SumOver(I) ==
    IF I = {} THEN 0
    ELSE LET i == CHOOSE x \in I : TRUE IN arg.rows[i].fine_amount + SumOver(I \ {i})

\* C6: resample_period with period 'D' gives one bucket per calendar day from
\* the first to the last issue date; is_business_day is true exactly from Monday
\* to Friday; the revenue of a bucket is "no data" on a Saturday or Sunday and
\* when the fines of the day sum to 0 (days without citation included), and
\* otherwise the sum of fine_amount over the rows of that day.
C6_DailyRevenue ==
    op \in {"resample_period", "aggregate_sweep_days"} =>
        /\ Len(daily) = arg.rows[Len(arg.rows)].issue_date - arg.rows[1].issue_date + 1
        /\ \A k \in 1..Len(daily) :
              /\ daily[k].date = arg.rows[1].issue_date + k - 1
              /\ daily[k].is_business_day = ~IsWeekend(daily[k].date)
              /\ daily[k].revenue =
                    IF IsWeekend(daily[k].date) \/ SumOver(RowsOfDay(daily[k].date)) = 0
                    THEN NoData
                    ELSE Float(SumOver(RowsOfDay(daily[k].date)))

\* C6 witness: a series with a weekend bucket whose fines sum to more than 0, a
\* business day whose fines sum to 0, a day without citation, and a business day
\* with revenue.
C6_Witness ==
    /\ op = "resample_period"
    /\ \E k \in 1..Len(daily) :
          IsWeekend(daily[k].date) /\ SumOver(RowsOfDay(daily[k].date)) > 0 /\ daily[k].revenue = NoData
    /\ \E k \in 1..Len(daily) :
          /\ ~IsWeekend(daily[k].date) /\ RowsOfDay(daily[k].date) # {}
          /\ daily[k].revenue = NoData
    /\ \E k \in 1..Len(daily) : RowsOfDay(daily[k].date) = {} /\ daily[k].revenue = NoData
    /\ \E k \in 1..Len(daily) : daily[k].revenue = Float(69000)

Qualifying == {k \in 1..Len(daily) :
                  /\ daily[k].is_business_day
                  /\ ~daily[k].revenue.nan
                  /\ daily[k].revenue.value > 69532}

MonthKey(d) == <<YMD(d).year, YMD(d).month>>

\* (year, month) a comes no later than b.
MonthLE(a, b) == a[1] < b[1] \/ (a[1] = b[1] /\ a[2] <= b[2])

NextMonth(a) == IF a[2] = 12 THEN <<a[1] + 1, 1>> ELSE <<a[1], a[2] + 1>>

\* C7: aggregate_sweep_days gives exactly one entry for every calendar month
\* from the first to the last month that holds a qualifying day (a business day
\* with revenue strictly greater than 69532), in order, and the count of each
\* month is the number of its qualifying days, 0 for a month that has none.
C7_MonthlyCounts ==
    op = "aggregate_sweep_days" =>
        LET out == dataset.rows
            keys == {MonthKey(daily[k].date) : k \in Qualifying}
        IN /\ (Qualifying = {}) = (Len(out) = 0)
           /\ \A i \in 1..Len(out) :
                 out[i].num_days_cited =
                     Cardinality({k \in Qualifying :
                                     MonthKey(daily[k].date) = <<out[i].year, out[i].month>>})
           /\ \A i \in 1..(Len(out) - 1) :
                 <<out[i + 1].year, out[i + 1].month>> = NextMonth(<<out[i].year, out[i].month>>)
           /\ Len(out) > 0 =>
                 /\ <<out[1].year, out[1].month>> \in keys
                 /\ <<out[Len(out)].year, out[Len(out)].month>> \in keys
                 /\ \A key \in keys :
                       /\ MonthLE(<<out[1].year, out[1].month>>, key)
                       /\ MonthLE(key, <<out[Len(out)].year, out[Len(out)].month>>)

\* C7 witness: a business day with revenue exactly 69532 was not counted, the
\* result spans December 2020 to February 2021, and January 2021, which has no
\* qualifying day, has count 0.
C7_Witness ==
    /\ op = "aggregate_sweep_days"
    /\ \E k \in 1..Len(daily) : daily[k].is_business_day /\ daily[k].revenue = Float(69532)
    /\ Len(dataset.rows) = 3
    /\ dataset.rows[1] = [year |-> 2020, month |-> 12, num_days_cited |-> 1]
    /\ dataset.rows[2] = [year |-> 2021, month |-> 1, num_days_cited |-> 0]
    /\ dataset.rows[3] = [year |-> 2021, month |-> 2, num_days_cited |-> 1]

----------------------------------------------------------------------------
(* Specification of two prep_sweep_data runs in two processes that share   *)
(* the artifact file.  A run is the steps of lines 268-297: the existence  *)
(* check, then either the read, or the derivation and to_csv, which opens  *)
(* the file for writing (creating or truncating it) and then writes its    *)
(* lines through a buffer that reaches the file some lines at a time, at   *)
(* the writer's own offset.                                                *)

Procs == {1, 2}

\* What a file holds where nothing was written (a hole past a truncation).
Hole == [hole |-> TRUE]

ConcTables ==
    {[columns |-> RawColumns, rows |-> s] :
        s \in {<<RawCitation(Citation(1, 30, 730, "A", 73, 6440000, 1803000))>>,
               <<RawCitation(Citation(1, 30, 730, "A", 73, 6440000, 1803000)),
                 RawCitation(Citation(1, 30, 1530, "A", 73, 6440000, 1803000))>>}}

\* lines written at offset pos of a file holding old.
write_at(old, pos, lines) ==
    LET n == IF Len(old) > pos + Len(lines) THEN Len(old) ELSE pos + Len(lines)
    IN [i \in 1..n |->
           IF i > pos /\ i <= pos + Len(lines) THEN lines[i - pos]
           ELSE IF i <= Len(old) THEN old[i]
           ELSE Hole]

InitConc ==
    /\ data = EmptyTable
    /\ arg = EmptyTable
    /\ dataset = EmptyTable
    /\ exc = "none"
    /\ op = "init"
    /\ artifact = [exists |-> FALSE, lines |-> <<>>]
    /\ ran = {}
    /\ writes = 0
    /\ daily = <<>>
    /\ proc \in [Procs -> {[pc |-> "check", raw |-> t, out |-> <<>>, pos |-> 0,
                            hit |-> FALSE, loaded |-> <<>>] : t \in ConcTables}]

\* Line 268: if os.path.exists(filename)
Check(p) ==
    /\ proc[p].pc = "check"
    /\ proc' = [proc EXCEPT ![p].pc = IF path_exists(artifact) THEN "read" ELSE "derive",
                            ![p].hit = path_exists(artifact)]
    /\ UNCHANGED <<data, arg, dataset, exc, op, artifact, ran, writes, daily>>

\* Lines 269-271: read_csv reads what the file holds now.
Read(p) ==
    /\ proc[p].pc = "read"
    /\ proc' = [proc EXCEPT ![p].pc = "done", ![p].loaded = artifact.lines]
    /\ UNCHANGED <<data, arg, dataset, exc, op, artifact, ran, writes, daily>>

\* Lines 274-291: the table is derived; out is the text to_csv will write.
Derive(p) ==
    /\ proc[p].pc = "derive"
    /\ proc' = [proc EXCEPT ![p].pc = IF prep_raises(proc[p].raw) = "none" THEN "open" ELSE "done",
                            ![p].out = IF prep_raises(proc[p].raw) = "none"
                                       THEN to_csv(prepare(proc[p].raw)) ELSE <<>>]
    /\ UNCHANGED <<data, arg, dataset, exc, op, artifact, ran, writes, daily>>

\* Line 294, to_csv opening the file with mode 'w': it exists from now on, empty.
Open(p) ==
    /\ proc[p].pc = "open"
    /\ artifact' = [exists |-> TRUE, lines |-> <<>>]
    /\ proc' = [proc EXCEPT ![p].pc = "write", ![p].pos = 0]
    /\ UNCHANGED <<data, arg, dataset, exc, op, ran, writes, daily>>

\* Line 294, to_csv writing: the next k lines reach the file; after the last
\* one the file is closed and the run returns.
Flush(p) ==
    /\ proc[p].pc = "write"
    /\ \E k \in 1..(Len(proc[p].out) - proc[p].pos) :
          /\ artifact' = [exists |-> TRUE,
                          lines |-> write_at(artifact.lines, proc[p].pos,
                                             SubSeq(proc[p].out, proc[p].pos + 1, proc[p].pos + k))]
          /\ proc' = [proc EXCEPT ![p].pos = proc[p].pos + k,
                                  ![p].pc = IF proc[p].pos + k = Len(proc[p].out)
                                            THEN "done" ELSE "write"]
    /\ UNCHANGED <<data, arg, dataset, exc, op, ran, writes, daily>>

NextConc == \E p \in Procs : Check(p) \/ Read(p) \/ Derive(p) \/ Open(p) \/ Flush(p)

SpecConc == InitConc /\ [][NextConc]_vars

\* C8: a run whose existence check succeeded never loads a partially written
\* artifact: what it read is the complete text of a prepared table that a run
\* persisted.
C8_ReaderSeesCompleteArtifact ==
    \A p \in Procs :
        (proc[p].pc = "done" /\ proc[p].hit) =>
            \E q \in Procs : proc[q].out # <<>> /\ proc[p].loaded = proc[q].out

----------------------------------------------------------------------------
(* explore.resample_period (explore.py 31-52), period 'D'. *)

\* Line 49: np.where(dataset.index.weekday < 5, 1, 0)
is_week_day(d) == IF weekday(d) < 5 THEN 1 ELSE 0

\* Line 50: .where(dataset.index.weekday <= 5, 0).replace(0, np.NaN): the sum
\* is kept from Monday (0) to Saturday (5), set to 0 on Sunday, and 0 becomes NaN.
explore_mask_revenue(sum, d) ==
    LET kept == IF weekday(d) <= 5 THEN sum ELSE 0
    IN IF kept = 0 THEN NoData ELSE Float(kept)

\* explore.resample_period(data) with period 'D': one bucket per day from the
\* first to the last date; the revenue column keeps the name fine_amount.
explore_resample_period(t) ==
    [k \in 1..(last_date(t.rows) - first_date(t.rows) + 1) |->
        LET d == first_date(t.rows) + k - 1
        IN [date |-> d,
            is_week_day |-> is_week_day(d),
            fine_amount |-> explore_mask_revenue(day_sum(t.rows, d), d)]]

----------------------------------------------------------------------------
(* Specification of the two daily resamplers applied to the same table. *)

CallExploreResamplePeriod ==
    /\ op \in {"init", "resample_period"}
    /\ op' = "explore.resample_period"
    /\ dataset' = [columns |-> {"fine_amount", "is_week_day"},
                   rows |-> explore_resample_period(data)]
    /\ UNCHANGED <<data, arg, daily, exc, artifact, ran, writes, proc>>

NextExplore == CallResamplePeriod \/ CallExploreResamplePeriod

SpecExplore == InitSeries /\ [][NextExplore]_vars

\* C11: on the same table, explore.resample_period(data, 'D') and
\* prepare.resample_period(data, 'D') give every daily bucket the same revenue
\* (the same sum or "no data"), "no data" on every Saturday and Sunday, and
\* is_week_day is 1 exactly where is_business_day is true.
C11_ResamplersAgree ==
    (op = "explore.resample_period" /\ daily # <<>>) =>
        /\ Len(dataset.rows) = Len(daily)
        /\ \A k \in 1..Len(daily) :
              /\ dataset.rows[k].date = daily[k].date
              /\ dataset.rows[k].fine_amount = daily[k].revenue
              /\ IsWeekend(daily[k].date) => dataset.rows[k].fine_amount = NoData
              /\ (dataset.rows[k].is_week_day = 1) = daily[k].is_business_day

=============================================================================
